---------------------------- MODULE Spec2Model ----------------------------
(***************************************************************************)
(* Student Management System (src/app.py): a Streamlit page over one       *)
(* SQLite table, students, in the file data.db.                            *)
(*                                                                         *)
(* Two specifications are given.                                           *)
(*   Spec    the data-access functions of src/app.py (init_database,       *)
(*           insert_student, view_all_students, get_student_by_id,         *)
(*           update_student, delete_student) called in any order with any  *)
(*           text arguments and any integer id.                            *)
(*   SpecUI  the script as Streamlit runs it: every user interaction       *)
(*           re-executes the whole script (init_database at line 135, then *)
(*           the page chosen in the sidebar).                              *)
(***************************************************************************)
EXTENDS Integers, Sequences, FiniteSets, TLC

(***************************************************************************)
(* Bounds of the model.                                                    *)
(***************************************************************************)
\* INSERT statements executed over the life of data.db.
MaxSeq == 2
\* datetime.now() answers one of the seconds 0 .. MaxClock of one minute.
MaxClock == 1

VARIABLES
    db,         \* the file data.db: the students table and sqlite_sequence
    assigned,   \* history: every id an INSERT has given to a row
    calls,      \* the data-access calls made by the latest step, in order
    ret,        \* what the latest data-access call returned
    operation,  \* the sidebar radio's value
    selected,   \* position chosen in the "Select Student" dropdown (0: none)
    form,       \* the values of the form submitted in the latest run, if any
    message     \* what the page showed at the end of the latest script run

vars == <<db, assigned, calls, ret, operation, selected, form, message>>

(***************************************************************************)
(* Python and SQLite values.                                               *)
(***************************************************************************)
\* A Python int, and the numpy.int64 that a row taken out of a DataFrame
\* holds in an integer column.
PyInt(n) == [pytype |-> "int", val |-> n]
NumpyInt64(n) == [pytype |-> "numpy.int64", val |-> n]
NoId == [pytype |-> "none", val |-> 0]

\* The storage class sqlite3 binds a Python value with.  An int is bound as
\* INTEGER.  A numpy.int64 is not an int: depending on the build it is
\* bound as INTEGER (an adapter, or a pandas that hands out Python ints) or
\* through the buffer protocol as BLOB.
BindTypes(value) ==
    IF value.pytype = "int" THEN {"INTEGER"} ELSE {"INTEGER", "BLOB"}

\* No WHERE clause: every row matches.
WhereAny(row, sqltype, value) == TRUE

\* WHERE id = ? : an INTEGER PRIMARY KEY equals only an INTEGER parameter.
WhereId(row, sqltype, value) == sqltype = "INTEGER" /\ row.id = value.val

None == [kind |-> "None", value |-> <<>>]

(***************************************************************************)
(* datetime.now().strftime("%Y-%m-%d %H:%M:%S")                            *)
(***************************************************************************)
Instants ==
    {[year |-> 2026, month |-> 11, day |-> 5, hour |-> 9, minute |-> 30,
      second |-> s] : s \in 0..MaxClock}

Pad2(n) == IF n < 10 THEN "0" \o ToString(n) ELSE ToString(n)

Pad4(n) ==
    IF n < 10 THEN "000" \o ToString(n)
    ELSE IF n < 100 THEN "00" \o ToString(n)
    ELSE IF n < 1000 THEN "0" \o ToString(n)
    ELSE ToString(n)

strftime(t) ==
    Pad4(t.year) \o "-" \o Pad2(t.month) \o "-" \o Pad2(t.day) \o " " \o
    Pad2(t.hour) \o ":" \o Pad2(t.minute) \o ":" \o Pad2(t.second)

(***************************************************************************)
(* The students table.  Rows are kept in rowid order, the order a SELECT   *)
(* without ORDER BY scans an INTEGER PRIMARY KEY table in.                 *)
(***************************************************************************)
Ids(rows) == {rows[i].id : i \in 1..Len(rows)}

MaxOf(S) == IF S = {} THEN 0 ELSE CHOOSE m \in S : \A x \in S : x <= m

\* Without AUTOINCREMENT: one more than the largest rowid now in the table.
NextRowidNoAutoincrement(rows, seq) == MaxOf(Ids(rows)) + 1

\* id INTEGER PRIMARY KEY AUTOINCREMENT: one more than the largest rowid the
\* table has ever held, which sqlite_sequence remembers.
NextRowid(rows, seq) == MaxOf(Ids(rows) \cup {seq}) + 1

\* DROP TABLE and CREATE TABLE: every row and the counter are lost.
CreateTableAnew(d) ==
    [exists |-> TRUE, students |-> <<>>, sqlite_sequence |-> 0]

\* CREATE TABLE IF NOT EXISTS students (...)
CreateTableIfNotExists(d) ==
    IF d.exists THEN d
    ELSE [exists |-> TRUE, students |-> <<>>, sqlite_sequence |-> 0]

\* INSERT that stores the phone in the email column and the reverse.
InsertRowSwapped(id, name, email, phone, course, enrollment_date) ==
    [id |-> id, name |-> name, email |-> phone, phone |-> email,
     course |-> course, enrollment_date |-> enrollment_date]

\* INSERT INTO students (name, email, phone, course, enrollment_date)
\* VALUES (?, ?, ?, ?, ?)
InsertRow(id, name, email, phone, course, enrollment_date) ==
    [id |-> id, name |-> name, email |-> email, phone |-> phone,
     course |-> course, enrollment_date |-> enrollment_date]

\* UPDATE that also stamps the row with a new enrollment_date.
SetRowRestamped(row, name, email, phone, course) ==
    [row EXCEPT !.name = name, !.email = email, !.phone = phone,
                !.course = course,
                !.enrollment_date = strftime(CHOOSE t \in Instants :
                    strftime(t) # row.enrollment_date)]

\* SET name = ?, email = ?, phone = ?, course = ?
SetRow(row, name, email, phone, course) ==
    [row EXCEPT !.name = name, !.email = email, !.phone = phone,
                !.course = course]

\* DELETE with no WHERE clause.
DeleteAllRows(rows, sqltype, value) == <<>>

\* DELETE FROM students WHERE id = ?
DeleteRows(rows, sqltype, value) ==
    SelectSeq(rows, LAMBDA r : ~WhereId(r, sqltype, value))

\* SELECT id, name, email, phone, course, enrollment_date FROM students,
\* read into a DataFrame: one record per row, in scan order.
SelectAll(rows) ==
    [i \in 1..Len(rows) |->
        [id |-> rows[i].id, name |-> rows[i].name, email |-> rows[i].email,
         phone |-> rows[i].phone, course |-> rows[i].course,
         enrollment_date |-> rows[i].enrollment_date]]

\* A row as the tuple SELECT * gives, in column order.
RowTuple(r) ==
    <<r.id, r.name, r.email, r.phone, r.course, r.enrollment_date>>

\* SELECT * FROM students WHERE id = ? ; cursor.fetchone()
FetchOne(rows, sqltype, value) ==
    LET hits == SelectSeq(rows, LAMBDA r : WhereId(r, sqltype, value))
    IN  IF hits = <<>> THEN None
        ELSE [kind |-> "tuple", value |-> RowTuple(hits[1])]

(***************************************************************************)
(* The data-access functions, as functions of the database file.           *)
(***************************************************************************)
InitDatabase(d) == CreateTableIfNotExists(d)

InsertStudent(d, name, email, phone, course, now) ==
    LET id == NextRowid(d.students, d.sqlite_sequence)
    IN  [d EXCEPT
            !.students = Append(@, InsertRow(id, name, email, phone, course,
                                             strftime(now))),
            !.sqlite_sequence = id]

UpdateStudent(d, sqltype, student_id, name, email, phone, course) ==
    [d EXCEPT !.students =
        [i \in 1..Len(@) |->
            IF WhereId(@[i], sqltype, student_id)
            THEN SetRow(@[i], name, email, phone, course)
            ELSE @[i]]]

DeleteStudent(d, sqltype, student_id) ==
    [d EXCEPT !.students = DeleteRows(@, sqltype, student_id)]

ViewAllStudents(d) == [kind |-> "DataFrame", value |-> SelectAll(d.students)]

GetStudentById(d, sqltype, student_id) ==
    FetchOne(d.students, sqltype, student_id)

Call(op, student_id, fields) ==
    [op |-> op, student_id |-> student_id, fields |-> fields]

(***************************************************************************)
(* Inputs.                                                                 *)
(***************************************************************************)
COURSES ==
    <<"Python Programming", "Web Development", "Data Science",
      "Machine Learning", "Database Design", "Mobile App Development">>

CourseSet == {COURSES[i] : i \in 1..Len(COURSES)}

\* Arguments the data-access functions are called with: any text, empty or
\* not, a course of the list or not.
StoreArgs ==
    { <<"Alice", "a@x.com", "555-0001", "Data Science">>,
      <<"Bob", "b@x.com", "555-0002", "Algebra">>,
      <<"", "b@x.com", "555-0001", "">> }

StoreIds == {PyInt(n) : n \in 0..MaxSeq + 1}

Init ==
    /\ db = [exists |-> FALSE, students |-> <<>>, sqlite_sequence |-> 0]
    /\ assigned = {}
    /\ calls = <<>>
    /\ ret = None
    /\ operation = "Create"
    /\ selected = 0
    /\ form = <<>>
    /\ message = "none"

(***************************************************************************)
(* Spec: the data-access functions called directly.  Line 135 creates the  *)
(* table when the module is loaded, before any other call can be made.     *)
(***************************************************************************)
init_database ==
    /\ db' = InitDatabase(db)
    /\ calls' = <<Call("init_database", NoId, <<>>)>>
    /\ ret' = None
    /\ UNCHANGED <<assigned, operation, selected, form, message>>

insert_student ==
    \E a \in StoreArgs, now \in Instants :
        /\ db.exists
        /\ db.sqlite_sequence < MaxSeq
        /\ db' = InsertStudent(db, a[1], a[2], a[3], a[4], now)
        /\ assigned' = assigned \cup {db'.students[Len(db'.students)].id}
        /\ calls' = <<Call("insert_student", NoId, a)>>
        /\ ret' = None
        /\ UNCHANGED <<operation, selected, form, message>>

view_all_students ==
    /\ db.exists
    /\ calls' = <<Call("view_all_students", NoId, <<>>)>>
    /\ ret' = ViewAllStudents(db)
    /\ UNCHANGED <<db, assigned, operation, selected, form, message>>

get_student_by_id ==
    \E student_id \in StoreIds :
    \E sqltype \in BindTypes(student_id) :
        /\ db.exists
        /\ calls' = <<Call("get_student_by_id", student_id, <<>>)>>
        /\ ret' = GetStudentById(db, sqltype, student_id)
        /\ UNCHANGED <<db, assigned, operation, selected, form, message>>

update_student ==
    \E student_id \in StoreIds, a \in StoreArgs :
    \E sqltype \in BindTypes(student_id) :
        /\ db.exists
        /\ db' = UpdateStudent(db, sqltype, student_id, a[1], a[2], a[3], a[4])
        /\ calls' = <<Call("update_student", student_id, a)>>
        /\ ret' = None
        /\ UNCHANGED <<assigned, operation, selected, form, message>>

delete_student ==
    \E student_id \in StoreIds :
    \E sqltype \in BindTypes(student_id) :
        /\ db.exists
        /\ db' = DeleteStudent(db, sqltype, student_id)
        /\ calls' = <<Call("delete_student", student_id, <<>>)>>
        /\ ret' = None
        /\ UNCHANGED <<assigned, operation, selected, form, message>>

Next ==
    \/ init_database
    \/ insert_student
    \/ view_all_students
    \/ get_student_by_id
    \/ update_student
    \/ delete_student

Spec == Init /\ [][Next]_vars

(***************************************************************************)
(* SpecUI: the Streamlit script.  Every action is one user interaction and *)
(* the script run (or runs, with st.rerun) it causes; each run starts with *)
(* init_database (line 135) and then renders the page of the sidebar.      *)
(***************************************************************************)
Operations == {"Create", "View", "Update", "Delete"}

\* What the user types into the text inputs and picks as course.  The last
\* one names a course the dropdowns do not list.
FormInputs ==
    { <<"Alice", "a@x.com", "555-0001", "Data Science">>,
      <<"Bob", "b@x.com", "555-0002", "Web Development">>,
      <<"Alice", "b@x.com", "555-0002", "Mobile App Development">>,
      <<"", "a@x.com", "555-0001", "Data Science">>,
      <<"Bob", "", "555-0002", "Python Programming">>,
      <<"Alice", "a@x.com", "", "Data Science">>,
      <<"Bob", "b@x.com", "555-0002", "Algebra">> }

\* A free-text course field: any course can be submitted.
AnyCourseOffered(course) == TRUE

\* st.selectbox("Course", [...]) returns one of its options.
CourseOffered(course) == course \in CourseSet

\* A check that forgets the phone.
FormValidNoPhone(name, email, phone, course) ==
    name # "" /\ email # "" /\ course # ""

\* A check of the name alone.
FormValidNameOnly(name, email, phone, course) == name # ""

\* if name and email and phone and course: a str is true when not empty.
FormValid(name, email, phone, course) ==
    name # "" /\ email # "" /\ phone # "" /\ course # ""

\* list.index(x): the 0-based position of the first x, or ValueError.
ListIndex(list, x) ==
    IF \E i \in 1..Len(list) : list[i] = x
    THEN [raised |-> FALSE,
          value |-> (CHOOSE i \in 1..Len(list) :
                        list[i] = x /\ \A j \in 1..i - 1 : list[j] # x) - 1]
    ELSE [raised |-> TRUE, value |-> 0]

\* df['name'].tolist()
StudentNames(df) == [i \in 1..Len(df) |-> df[i].name]

\* The last row of the given name: .iloc[-1].
SelectedStudentLast(df, selected_name) ==
    LET hits == SelectSeq(df, LAMBDA r : r.name = selected_name)
    IN  hits[Len(hits)]

\* df[df['name'] == selected_name].iloc[0]
SelectedStudent(df, selected_name) ==
    LET hits == SelectSeq(df, LAMBDA r : r.name = selected_name)
    IN  hits[1]

\* The dropdown keeps its position over a rerun while its options are the
\* same, and goes back to its first option when they change.
SelectboxIndex(old_options, new_options, k) ==
    IF new_options = <<>> THEN 0
    ELSE IF old_options = new_options /\ k \in 1..Len(new_options) THEN k
    ELSE 1

InitCall == Call("init_database", NoId, <<>>)
ViewCall == Call("view_all_students", NoId, <<>>)

\* The body of one page, rendered with nothing submitted: the data-access
\* calls it makes, the dropdown's position and what it shows.
RenderPage(op, d, k) ==
    LET frame == ViewAllStudents(d)
        df == frame.value
    IN  IF op = "Create"
        THEN [calls |-> <<>>, ret |-> None, selected |-> 0,
              message |-> "info"]
        ELSE IF df = <<>>
        THEN [calls |-> <<ViewCall>>, ret |-> frame, selected |-> 0,
              message |-> "warning"]
        ELSE IF op = "View"
        THEN [calls |-> <<ViewCall>>, ret |-> frame, selected |-> 0,
              message |-> "dataframe"]
        ELSE IF op = "Update"
        THEN [calls |-> <<ViewCall>>, ret |-> frame, selected |-> k,
              message |->
                IF ListIndex(COURSES,
                       SelectedStudent(df, StudentNames(df)[k]).course).raised
                THEN "ValueError" ELSE "form"]
        ELSE [calls |-> <<ViewCall>>, ret |-> frame, selected |-> k,
              message |-> "details"]

\* The user picks a page in the sidebar.
Navigate ==
    \E op \in Operations :
        LET d0 == InitDatabase(db)
            page == RenderPage(op, d0, 1)
        IN  /\ db' = d0
            /\ operation' = op
            /\ selected' = page.selected
            /\ calls' = <<InitCall>> \o page.calls
            /\ ret' = page.ret
            /\ message' = page.message
            /\ form' = <<>>
            /\ UNCHANGED assigned

\* The user picks a student in the dropdown of the Update or Delete page.
SelectStudent ==
    \E k \in 1..Len(db.students) :
        LET d0 == InitDatabase(db)
            page == RenderPage(operation, d0, k)
        IN  /\ operation \in {"Update", "Delete"}
            /\ db' = d0
            /\ selected' = page.selected
            /\ calls' = <<InitCall>> \o page.calls
            /\ ret' = page.ret
            /\ message' = page.message
            /\ form' = <<>>
            /\ UNCHANGED <<assigned, operation>>

\* "Add Student" pressed on the Create page.
CreateSubmit ==
    \E a \in FormInputs, now \in Instants :
        LET d0 == InitDatabase(db)
            d1 == InsertStudent(d0, a[1], a[2], a[3], a[4], now)
        IN  /\ operation = "Create"
            /\ CourseOffered(a[4])
            /\ form' = a
            /\ selected' = 0
            /\ ret' = None
            /\ IF FormValid(a[1], a[2], a[3], a[4])
               THEN /\ d0.sqlite_sequence < MaxSeq
                    /\ db' = d1
                    /\ assigned' =
                         assigned \cup {d1.students[Len(d1.students)].id}
                    /\ calls' = <<InitCall, Call("insert_student", NoId, a)>>
                    /\ message' = "success"
               ELSE /\ db' = d0
                    /\ calls' = <<InitCall>>
                    /\ message' = "error"
                    /\ UNCHANGED assigned
            /\ UNCHANGED operation

\* "Save Changes" pressed on the Update page.
UpdateSubmit ==
    \E a \in FormInputs :
        LET d0 == InitDatabase(db)
            df == SelectAll(d0.students)
        IN  /\ operation = "Update"
            /\ selected \in 1..Len(df)
            /\ LET selected_name == StudentNames(df)[selected]
                   selected_student == SelectedStudent(df, selected_name)
                   student_id == NumpyInt64(selected_student.id)
               IN  /\ ~ListIndex(COURSES, selected_student.course).raised
                   /\ CourseOffered(a[4])
                   /\ form' = a
                   /\ IF FormValid(a[1], a[2], a[3], a[4])
                      THEN \E sqltype \in BindTypes(student_id) :
                        LET d1 == UpdateStudent(d0, sqltype, student_id,
                                                a[1], a[2], a[3], a[4])
                            d2 == InitDatabase(d1)
                            k == SelectboxIndex(StudentNames(df),
                                     StudentNames(SelectAll(d2.students)),
                                     selected)
                            page == RenderPage("Update", d2, k)
                        IN  /\ db' = d2
                            /\ calls' =
                                 <<InitCall, ViewCall,
                                   Call("update_student", student_id, a),
                                   InitCall>> \o page.calls
                            /\ ret' = page.ret
                            /\ selected' = page.selected
                            /\ message' = page.message
                      ELSE /\ db' = d0
                           /\ calls' = <<InitCall, ViewCall>>
                           /\ ret' = ViewAllStudents(d0)
                           /\ message' = "error"
                           /\ UNCHANGED selected
            /\ UNCHANGED <<assigned, operation>>

\* "Delete Student" pressed on the Delete page.
DeleteClick ==
    LET d0 == InitDatabase(db)
        df == SelectAll(d0.students)
    IN  /\ operation = "Delete"
        /\ selected \in 1..Len(df)
        /\ LET selected_name == StudentNames(df)[selected]
               selected_student == SelectedStudent(df, selected_name)
               student_id == NumpyInt64(selected_student.id)
           IN  \E sqltype \in BindTypes(student_id) :
                LET d1 == DeleteStudent(d0, sqltype, student_id)
                    d2 == InitDatabase(d1)
                    k == SelectboxIndex(StudentNames(df),
                             StudentNames(SelectAll(d2.students)), selected)
                    page == RenderPage("Delete", d2, k)
                IN  /\ db' = d2
                    /\ calls' =
                         <<InitCall, ViewCall,
                           Call("delete_student", student_id, <<>>),
                           InitCall>> \o page.calls
                    /\ ret' = page.ret
                    /\ selected' = page.selected
                    /\ message' = page.message
        /\ form' = <<>>
        /\ UNCHANGED <<assigned, operation>>

\* "Cancel" pressed on the Delete page.
DeleteCancel ==
    LET d0 == InitDatabase(db)
        df == SelectAll(d0.students)
    IN  /\ operation = "Delete"
        /\ selected \in 1..Len(df)
        /\ db' = d0
        /\ calls' = <<InitCall, ViewCall>>
        /\ ret' = ViewAllStudents(d0)
        /\ message' = "cancelled"
        /\ form' = <<>>
        /\ UNCHANGED <<assigned, operation, selected>>

NextUI ==
    \/ Navigate
    \/ SelectStudent
    \/ CreateSubmit
    \/ UpdateSubmit
    \/ DeleteClick
    \/ DeleteCancel

SpecUI == Init /\ [][NextUI]_vars

(***************************************************************************)
(* Properties of the data-access functions (checked under Spec, where      *)
(* every step makes exactly one call, calls'[1]).                          *)
(***************************************************************************)
TheCall == calls[1]

RowOf(rows, id) == CHOOSE r \in {rows[i] : i \in 1..Len(rows)} : r.id = id

\* C1: insert_student with four non-empty fields, then view_all_students:
\* one more record than before; the new record carries the four given fields
\* and an id no record had before the call; every record that was there is
\* returned unchanged.
C1_InsertThenViewShowsOneMore ==
    [][ ( /\ calls'[1].op = "insert_student"
          /\ \A i \in 1..4 : calls'[1].fields[i] # "" )
        => LET before == ViewAllStudents(db).value
               after == ViewAllStudents(db').value
               a == calls'[1].fields
               new == after[Len(after)]
           IN  /\ Len(after) = Len(before) + 1
               /\ \A i \in 1..Len(before) : after[i] = before[i]
               /\ new.name = a[1] /\ new.email = a[2]
               /\ new.phone = a[3] /\ new.course = a[4]
               /\ \A i \in 1..Len(before) : before[i].id # new.id
               /\ \E t \in Instants : new.enrollment_date = strftime(t)
      ]_vars

C1_Witness ==
    /\ calls # <<>>
    /\ TheCall.op = "insert_student"
    /\ TheCall.fields = <<"Alice", "a@x.com", "555-0001", "Data Science">>
    /\ Len(db.students) = 2
    /\ db.students[2].name = "Alice"
    /\ db.students[1].name = "Bob"

\* C2: update_student on an id that is present, then get_student_by_id: the
\* four fields are the new values, id and enrollment_date are as before, no
\* other record changes; and no step of any kind changes the
\* enrollment_date of a record.
C2_UpdateKeepsIdAndEnrollmentDate ==
    [][ /\ ( /\ calls'[1].op = "update_student"
             /\ calls'[1].student_id.val \in Ids(db.students) )
           => LET id == calls'[1].student_id
                  a == calls'[1].fields
                  old == RowOf(db.students, id.val)
              IN  /\ \A sqltype \in BindTypes(id) :
                        GetStudentById(db', sqltype, id) =
                          [kind |-> "tuple",
                           value |-> <<old.id, a[1], a[2], a[3], a[4],
                                       old.enrollment_date>>]
                  /\ Len(db'.students) = Len(db.students)
                  /\ \A i \in 1..Len(db.students) :
                        db.students[i].id # id.val
                            => db'.students[i] = db.students[i]
        /\ \A i \in Ids(db.students) \cap Ids(db'.students) :
              RowOf(db'.students, i).enrollment_date =
                  RowOf(db.students, i).enrollment_date
      ]_vars

C2_Witness ==
    /\ calls # <<>>
    /\ TheCall.op = "update_student"
    /\ TheCall.student_id.val = 2
    /\ Len(db.students) = 2
    /\ db.students[2].id = 2
    /\ db.students[2].name = "Bob" /\ TheCall.fields[1] = "Bob"
    /\ db.students[1].name = "Alice"
    /\ db.students[2].enrollment_date # db.students[1].enrollment_date

\* C3: delete_student on an id that is present removes exactly that record
\* and leaves the others as they were; from then on get_student_by_id of a
\* deleted id returns None, whatever was called in between.
C3_DeleteRemovesOneForGood ==
    [][ /\ ( /\ calls'[1].op = "delete_student"
             /\ calls'[1].student_id.val \in Ids(db.students) )
           => LET id == calls'[1].student_id.val
              IN  /\ Len(db'.students) = Len(db.students) - 1
                  /\ db'.students = SelectSeq(db.students, LAMBDA r : r.id # id)
                  /\ id \notin Ids(db'.students)
        /\ ( /\ calls'[1].op = "get_student_by_id"
             /\ calls'[1].student_id.val \in assigned' \ Ids(db'.students) )
           => ret' = None
        /\ \A id \in assigned \ Ids(db.students) :
              GetStudentById(db', "INTEGER", PyInt(id)) = None
      ]_vars

C3_Witness ==
    /\ calls # <<>>
    /\ TheCall.op = "get_student_by_id"
    /\ TheCall.student_id.val = 1
    /\ assigned = {1, 2}
    /\ Ids(db.students) = {2}
    /\ ret = None

\* C4: for an id that is not present (the empty store included),
\* get_student_by_id returns None, and update_student and delete_student
\* return and leave the database as it was.
C4_AbsentIdIsNoOp ==
    [][ /\ ( /\ calls'[1].op \in {"update_student", "delete_student"}
             /\ calls'[1].student_id.val \notin Ids(db.students) )
           => db' = db /\ ret' = None
        /\ ( /\ calls'[1].op = "get_student_by_id"
             /\ calls'[1].student_id.val \notin Ids(db'.students) )
           => ret' = None /\ db' = db
      ]_vars

C4_Witness ==
    /\ calls # <<>>
    /\ TheCall.op = "update_student"
    /\ TheCall.student_id.val = 3
    /\ Len(db.students) = 2
    /\ \A i \in 1..2 : db.students[i].name # TheCall.fields[1]

\* C5: the id an INSERT gives is greater than every id given before, those
\* of deleted records included, and no step changes the id of a record.
C5_IdsMonotonicNeverReused ==
    [][ /\ calls'[1].op = "insert_student"
           => /\ \A i \in assigned : db'.students[Len(db'.students)].id > i
              /\ [i \in 1..Len(db.students) |-> db'.students[i].id] =
                 [i \in 1..Len(db.students) |-> db.students[i].id]
        /\ calls'[1].op = "update_student"
           => [i \in 1..Len(db'.students) |-> db'.students[i].id] =
              [i \in 1..Len(db.students) |-> db.students[i].id]
        /\ \A i \in Ids(db'.students) \ Ids(db.students) :
              \A j \in assigned : i > j
      ]_vars

C5_Witness ==
    /\ calls # <<>>
    /\ TheCall.op = "insert_student"
    /\ assigned = {1, 2}
    /\ Ids(db.students) = {2}

\* C6: init_database on a database that already has the table changes
\* nothing, neither the records nor the id counter; calling it again gives
\* the state that calling it once gave.
C6_InitDatabaseIdempotent ==
    [][ calls'[1].op = "init_database"
        => /\ db.exists => db' = db
           /\ InitDatabase(db') = db'
           /\ db'.exists
      ]_vars

C6_Witness ==
    /\ calls # <<>>
    /\ TheCall.op = "init_database"
    /\ Len(db.students) = 1
    /\ db.sqlite_sequence = 2

(***************************************************************************)
(* Properties of the pages (checked under SpecUI).                         *)
(***************************************************************************)
CallOps == {calls[k].op : k \in 1..Len(calls)}

\* C7: a Create or Update form submitted with an empty field: neither
\* insert_student nor update_student is called, the error message is shown
\* and the records are as before.
C7_EmptyFieldIsRejected ==
    [][ (form' # <<>> /\ \E i \in 1..4 : form'[i] = "")
        => /\ message' = "error"
           /\ \A k \in 1..Len(calls') :
                 calls'[k].op \notin
                     {"insert_student", "update_student", "delete_student"}
           /\ db'.students = db.students
           /\ db'.sqlite_sequence = db.sqlite_sequence
      ]_vars

C7_Witness ==
    /\ operation = "Update"
    /\ form = <<"Alice", "a@x.com", "", "Data Science">>
    /\ message = "error"
    /\ Len(db.students) = 2

\* C8: in every state the pages can reach, every record has a non-empty
\* name, email, phone and course; the data-access functions themselves
\* store empty strings when given them.
C8_StoredFieldsNonEmpty ==
    /\ \A i \in 1..Len(db.students) :
          /\ db.students[i].name # "" /\ db.students[i].email # ""
          /\ db.students[i].phone # "" /\ db.students[i].course # ""
    /\ \A now \in Instants :
          LET d == InsertStudent(db, "", "", "", "", now)
          IN  /\ Len(d.students) = Len(db.students) + 1
              /\ d.students[Len(d.students)].name = ""
              /\ d.students[Len(d.students)].course = ""
    /\ \A i \in 1..Len(db.students) :
          LET d == UpdateStudent(db, "INTEGER", PyInt(db.students[i].id),
                                 "", "", "", "")
          IN  d.students[i].email = "" /\ d.students[i].phone = ""

C8_Witness ==
    /\ "update_student" \in CallOps
    /\ form # <<>>
    /\ Len(db.students) = 2
    /\ assigned = {1, 2}

\* The position in df of the first record of the name at position k.
FirstOfName(df, k) ==
    CHOOSE i \in 1..Len(df) :
        /\ df[i].name = df[k].name
        /\ \A j \in 1..Len(df) : df[j].name = df[k].name => i <= j

\* C9: the id the Update and Delete pages pass to update_student and
\* delete_student is that of the first record, in view_all_students order,
\* of the selected name; a later record of the same name is never the
\* target; with pairwise distinct names the target is the selected record.
C9_TargetIsFirstOfName ==
    [][ \A c \in 1..Len(calls') :
          calls'[c].op \in {"update_student", "delete_student"}
          => LET df == ViewAllStudents(db).value
                 target == calls'[c].student_id.val
             IN  /\ selected \in 1..Len(df)
                 /\ target = df[FirstOfName(df, selected)].id
                 /\ \A i, j \in 1..Len(df) :
                       (i < j /\ df[i].name = df[j].name)
                           => target # df[j].id
                 /\ (\A i, j \in 1..Len(df) :
                        df[i].name = df[j].name => i = j)
                    => target = df[selected].id
      ]_vars

C9_Witness ==
    /\ operation = "Update"
    /\ selected = 2
    /\ \E c \in 1..Len(calls) :
          /\ calls[c].op = "update_student"
          /\ calls[c].student_id.val = 1
    /\ Len(db.students) = 2
    /\ db.students[1].id = 1 /\ db.students[2].id = 2
    /\ db.students[1].name = "Alice" /\ db.students[2].name = "Alice"

\* C10: in every state the pages can reach, the course of every record is
\* one of the six listed, so the index lookup of the Update page finds it.
C10_CourseAlwaysListed ==
    /\ \A i \in 1..Len(db.students) :
          /\ db.students[i].course \in CourseSet
          /\ ~ListIndex(COURSES, db.students[i].course).raised
          /\ COURSES[ListIndex(COURSES, db.students[i].course).value + 1]
                = db.students[i].course
    /\ message # "ValueError"

C10_Witness ==
    /\ operation = "Update"
    /\ message = "form"
    /\ selected = 2
    /\ Len(db.students) = 2
    /\ db.students[2].course = "Mobile App Development"

=============================================================================
